---- MODULE Spec2Model ----
(***************************************************************************)
(* Model of yukidaruma/emoji2text-font: scripts/emoji_mappings.py (the     *)
(* registry parser, the name normalizer, the special-codepoint table) and  *)
(* scripts/generate_font.py (the glyph and substitution-rule builder).     *)
(*                                                                         *)
(* A character is its Unicode code point (an integer), a string is a       *)
(* sequence of characters.  Python's None is the empty tuple None, and an  *)
(* Optional value x that is present is the one-element tuple Some(x).      *)
(***************************************************************************)
EXTENDS Integers, Sequences, FiniteSets, TLC

VARIABLES
    \* _normalize_emoji_name applied to a raw name, then to its own output
    nraw, nout1, nout2, npc,
    \* the program counter of the build: parse, special table, merge, font
    pc,
    \* parse_emoji_test: the file, the index of the next line, the two tables,
    \* the exception that ended the run, and for the line read last the value
    \* of parsed and of _parse_line's local emoji_name
    lines, idx, emoji_mappings, composition_sequences, error, parsed, raw_name,
    \* the module-level tables built after the parse
    SPECIAL_MAPPINGS, ALL_MAPPINGS,
    \* generate_font.py: the source font, the target font's glyphs and lookups,
    \* the components still to visit, the loop index and the count
    source_font, glyphs, lookups, pending, comp_i, count

nvars == <<nraw, nout1, nout2, npc>>
pvars == <<lines, idx, emoji_mappings, composition_sequences, error, parsed, raw_name>>
mvars == <<SPECIAL_MAPPINGS, ALL_MAPPINGS>>
fvars == <<source_font, glyphs, lookups, pending, comp_i, count>>
vars == <<nvars, pc, pvars, mvars, fvars>>

None == <<>>
Some(x) == <<x>>

-----------------------------------------------------------------------------
(* Bounds of the model *)

\* longest free part of a raw name given to the normalizer
MaxLen == 3
\* longest comment field of a generated registry line
MaxComment == 6
\* most lines of a registry file
MaxLines == 3

-----------------------------------------------------------------------------
(* Characters *)

TAB == 9
LF == 10
SPACE == 32
HASH == 35
LPAREN == 40
RPAREN == 41
STAR == 42
HYPHEN == 45
COLON == 58
SEMICOLON == 59
UNDERSCORE == 95
SMALL_N == 110
CAPITAL_N_TILDE == 209
SMALL_N_TILDE == 241
CAPITAL_I_DOT == 304
COMBINING_DOT == 775

\* ord('0'), ord('9'), ord('a'), ord('z')
ASCII_DIGIT_0 == 48
ASCII_DIGIT_9 == 57
ASCII_SMALL_A == 97
ASCII_SMALL_Z == 122
\* 0x1F1E6, 0x1F1FF, 0x200D
REGIONAL_INDICATOR_A == 127462
REGIONAL_INDICATOR_Z == 127487
ZWJ == 8205

\* "flag:", "keycap:", "flag_"
STR_flag_colon == <<102, 108, 97, 103, 58>>
STR_keycap_colon == <<107, 101, 121, 99, 97, 112, 58>>
STR_flag_underscore == <<102, 108, 97, 103, 95>>
\* "regional_indicator_", "uni", "comp_"
STR_regional_indicator_ ==
    <<114, 101, 103, 105, 111, 110, 97, 108, 95, 105, 110, 100, 105, 99, 97, 116, 111, 114, 95>>
STR_uni == <<117, 110, 105>>
STR_comp_ == <<99, 111, 109, 112, 95>>

-----------------------------------------------------------------------------
(* Python's str methods and re.sub, as the scripts use them *)

\* str.isspace() for one character (the white space below U+0100)
WhiteSpace == {9, 10, 11, 12, 13, 28, 29, 30, 31, 32, 133, 160}

\* c in s
Contains(s, c) == \E i \in 1..Len(s) : s[i] = c

\* s.find(c) + 1: the index of the first c in s, 0 when there is none
Find(s, c) ==
    IF Contains(s, c)
    THEN CHOOSE i \in 1..Len(s) : s[i] = c /\ \A j \in 1..(i - 1) : s[j] # c
    ELSE 0

\* s.startswith(p)
StartsWith(s, p) == Len(s) >= Len(p) /\ SubSeq(s, 1, Len(p)) = p

RECURSIVE LStrip(_)
LStrip(s) ==
    IF s = <<>> THEN s
    ELSE IF Head(s) \in WhiteSpace THEN LStrip(Tail(s)) ELSE s

RECURSIVE RStrip(_)
RStrip(s) ==
    IF s = <<>> THEN s
    ELSE IF s[Len(s)] \in WhiteSpace THEN RStrip(SubSeq(s, 1, Len(s) - 1)) ELSE s

\* s.strip()
strip(s) == RStrip(LStrip(s))

\* s.split(sep, maxsplit) for a one-character sep; maxsplit = -1 is "no limit"
RECURSIVE split(_, _, _)
split(s, sep, maxsplit) ==
    LET i == Find(s, sep) IN
    IF maxsplit = 0 \/ i = 0 THEN <<s>>
    ELSE <<SubSeq(s, 1, i - 1)>> \o split(SubSeq(s, i + 1, Len(s)), sep, maxsplit - 1)

\* s.split(): split on runs of white space, no empty pieces
RECURSIVE split_ws(_)
split_ws(s) ==
    LET t == LStrip(s) IN
    IF t = <<>> THEN <<>>
    ELSE LET ends == {i \in 1..Len(t) : t[i] \in WhiteSpace}
             n == IF ends = {} THEN Len(t) + 1
                  ELSE CHOOSE i \in ends : \A j \in ends : i <= j
         IN <<SubSeq(t, 1, n - 1)>> \o split_ws(SubSeq(t, n, Len(t)))

\* str.lower() for one character: a string, since U+0130 lowers to two characters
LowerChar(c) ==
    IF c \in 65..90 THEN <<c + 32>>
    ELSE IF c \in 192..222 /\ c # 215 THEN <<c + 32>>
    ELSE IF c = CAPITAL_I_DOT THEN <<105, COMBINING_DOT>>
    ELSE <<c>>

\* s.lower()
RECURSIVE lower(_)
lower(s) == IF s = <<>> THEN <<>> ELSE LowerChar(Head(s)) \o lower(Tail(s))

\* s.replace(old, new) for a one-character old
RECURSIVE replace(_, _, _)
replace(s, old, new) ==
    IF s = <<>> THEN <<>>
    ELSE (IF Head(s) = old THEN new ELSE <<Head(s)>>) \o replace(Tail(s), old, new)

\* re.sub(r'[class]+', rep, s), the class given as the set M of the positions
\* of s that hold a character of the class: every maximal run becomes one rep
RECURSIVE SubRuns(_, _, _, _)
SubRuns(s, M, rep, i) ==
    IF i > Len(s) THEN <<>>
    ELSE IF i \in M
         THEN (IF i > 1 /\ (i - 1) \in M THEN <<>> ELSE rep) \o SubRuns(s, M, rep, i + 1)
         ELSE <<s[i]>> \o SubRuns(s, M, rep, i + 1)

-----------------------------------------------------------------------------
(* emoji_mappings.py: _normalize_emoji_name *)

\* the character class a-z0-9#()*_ of the regular expression
FontAlphabet ==
    (ASCII_SMALL_A..ASCII_SMALL_Z) \cup (ASCII_DIGIT_0..ASCII_DIGIT_9)
        \cup {HASH, LPAREN, RPAREN, STAR, UNDERSCORE}

\* the startswith tuple that names only 'flag:'
IsFlagOrKeycapFlagOnly(emoji_name) == StartsWith(emoji_name, STR_flag_colon)

\* emoji_name.startswith(('flag:', 'keycap:'))
IsFlagOrKeycap(emoji_name) ==
    StartsWith(emoji_name, STR_flag_colon) \/ StartsWith(emoji_name, STR_keycap_colon)

\* the else branch without its .strip()
TruncateAtColonNoStrip(emoji_name) == split(emoji_name, COLON, -1)[1]

\* emoji_name.split(':')[0].strip()
TruncateAtColon(emoji_name) == strip(split(emoji_name, COLON, -1)[1])

\* the special cases for flags and keycaps (the if ':' in emoji_name block)
HandleColon(emoji_name) ==
    IF Contains(emoji_name, COLON)
    THEN IF IsFlagOrKeycap(emoji_name)
         THEN LET suffix == split(emoji_name, COLON, 1)[2]
              IN STR_flag_underscore \o lower(strip(suffix))
         ELSE TruncateAtColon(emoji_name)
    ELSE emoji_name

\* re.sub(r'[^a-z0-9#()*_]+', '_', name)
ReplaceNonFontChars(name) ==
    SubRuns(name, {i \in 1..Len(name) : name[i] \notin FontAlphabet}, <<UNDERSCORE>>, 1)

\* name.replace('__', '_'): one left-to-right pass over non-overlapping pairs
RECURSIVE CollapsePairsOnce(_)
CollapsePairsOnce(name) ==
    IF Len(name) < 2 THEN name
    ELSE IF name[1] = UNDERSCORE /\ name[2] = UNDERSCORE
         THEN <<UNDERSCORE>> \o CollapsePairsOnce(SubSeq(name, 3, Len(name)))
         ELSE <<name[1]>> \o CollapsePairsOnce(Tail(name))

\* re.sub(r'_+', '_', name)
CollapseUnderscores(name) ==
    SubRuns(name, {i \in 1..Len(name) : name[i] = UNDERSCORE}, <<UNDERSCORE>>, 1)

\* the two substitutions in the opposite order
NormalizeSwapped(emoji_name) ==
    LET name == replace(lower(HandleColon(emoji_name)), SMALL_N_TILDE, <<SMALL_N>>)
    IN ReplaceNonFontChars(CollapseUnderscores(name))

_normalize_emoji_name(emoji_name) ==
    LET name == replace(lower(HandleColon(emoji_name)), SMALL_N_TILDE, <<SMALL_N>>)
    IN CollapseUnderscores(ReplaceNonFontChars(name))

-----------------------------------------------------------------------------
(* emoji_mappings.py: _extract_emoji_name, _parse_line *)

\* parts = comment_part.split(' ', 2); parts[2] if len(parts) >= 3 else None
_extract_emoji_name(comment_part) ==
    LET parts == split(comment_part, SPACE, 2)
    IN IF Len(parts) >= 3 THEN Some(parts[3]) ELSE None

\* _parse_line's frame when it returns: ret is the returned value, emoji_name
\* the local of that name (None where the function returns before setting it)
ParseLineFrame(line) ==
    IF line = <<>> \/ StartsWith(line, <<HASH>>)
    THEN [ret |-> None, emoji_name |-> None]
    ELSE IF ~Contains(line, SEMICOLON) \/ ~Contains(line, HASH)
    THEN [ret |-> None, emoji_name |-> None]
    ELSE LET halves == split(line, SEMICOLON, 1)
             codepoints_part == halves[1]
             rest == halves[2]
             codepoints_str == strip(codepoints_part)
         IN IF ~Contains(rest, HASH)
            THEN [ret |-> None, emoji_name |-> None]
            ELSE LET comment_part == strip(split(rest, HASH, 1)[2])
                     emoji_name == _extract_emoji_name(comment_part)
                 IN IF emoji_name = None \/ emoji_name = Some(<<>>)
                    THEN [ret |-> None, emoji_name |-> emoji_name]
                    ELSE [ret |-> Some(<<split_ws(codepoints_str),
                                         _normalize_emoji_name(emoji_name[1])>>),
                          emoji_name |-> emoji_name]

_parse_line(line) == ParseLineFrame(line).ret

-----------------------------------------------------------------------------
(* emoji_mappings.py: parse_emoji_test and the module-level tables *)

\* the value of one hexadecimal digit, -1 for any other character
HexDigit(c) ==
    IF c \in 48..57 THEN c - 48
    ELSE IF c \in 65..70 THEN c - 55
    ELSE IF c \in 97..102 THEN c - 87
    ELSE -1

\* whether int(cp, 16) returns for a token of digits (it raises ValueError
\* otherwise); signs, a 0x prefix and digit-group underscores are not modelled
IsHex(cp) == cp # <<>> /\ \A i \in 1..Len(cp) : HexDigit(cp[i]) >= 0

\* int(cp, 16)
RECURSIVE int16(_)
int16(cp) ==
    IF cp = <<>> THEN 0
    ELSE int16(SubSeq(cp, 1, Len(cp) - 1)) * 16 + HexDigit(cp[Len(cp)])

\* [int(cp, 16) for cp in codepoint_list]
codepoint_ints(codepoint_list) ==
    [k \in 1..Len(codepoint_list) |-> int16(codepoint_list[k])]

\* emoji_mappings.setdefault(codepoint, name): the first entry for a key stays
RecordSingleFirstWins(mappings, codepoint, name) ==
    IF codepoint \in DOMAIN mappings THEN mappings
    ELSE [c \in DOMAIN mappings \cup {codepoint} |->
             IF c = codepoint THEN name ELSE mappings[c]]

\* emoji_mappings[codepoint] = name
RecordSingle(mappings, codepoint, name) ==
    [c \in DOMAIN mappings \cup {codepoint} |->
        IF c = codepoint THEN name ELSE mappings[c]]

\* an append that skips a sequence the list already holds
RecordSequenceDedup(sequences, ints, name) ==
    IF \E k \in 1..Len(sequences) : sequences[k] = <<ints, name>> THEN sequences
    ELSE Append(sequences, <<ints, name>>)

\* composition_sequences.append((codepoint_ints, name))
RecordSequence(sequences, ints, name) == Append(sequences, <<ints, name>>)

\* one iteration of the for loop over the file's lines
ProcessLine ==
    /\ pc = "loop"
    /\ idx <= Len(lines)
    /\ LET frame == ParseLineFrame(strip(lines[idx]))
           p == frame.ret
       IN /\ parsed' = p
          /\ raw_name' = frame.emoji_name
          /\ IF p = None
             THEN /\ idx' = idx + 1
                  /\ UNCHANGED <<pc, emoji_mappings, composition_sequences, error>>
             ELSE LET codepoint_list == p[1][1]
                      name == p[1][2]
                  IN IF Len(codepoint_list) > 1
                     THEN IF \A k \in 1..Len(codepoint_list) : IsHex(codepoint_list[k])
                          THEN /\ composition_sequences' =
                                      RecordSequence(composition_sequences,
                                                     codepoint_ints(codepoint_list), name)
                               /\ idx' = idx + 1
                               /\ UNCHANGED <<pc, emoji_mappings, error>>
                          ELSE /\ error' = "ValueError"
                               /\ pc' = "raised"
                               /\ UNCHANGED <<idx, emoji_mappings, composition_sequences>>
                     ELSE IF Len(codepoint_list) = 0
                          THEN /\ error' = "IndexError"
                               /\ pc' = "raised"
                               /\ UNCHANGED <<idx, emoji_mappings, composition_sequences>>
                          ELSE IF IsHex(codepoint_list[1])
                               THEN /\ emoji_mappings' =
                                           RecordSingle(emoji_mappings,
                                                        int16(codepoint_list[1]), name)
                                    /\ idx' = idx + 1
                                    /\ UNCHANGED <<pc, composition_sequences, error>>
                               ELSE /\ error' = "ValueError"
                                    /\ pc' = "raised"
                                    /\ UNCHANGED <<idx, emoji_mappings,
                                                   composition_sequences>>
    /\ UNCHANGED <<nvars, lines, mvars, fvars>>

\* the loop is over: EMOJI_MAPPINGS, COMPOSITION_SEQUENCES = parse_emoji_test(...)
ReturnTables ==
    /\ pc = "loop"
    /\ idx > Len(lines)
    /\ pc' = "parsed"
    /\ UNCHANGED <<nvars, pvars, mvars, fvars>>

\* SPECIAL_MAPPINGS = {ZWJ: "_"} and the loop over the regional indicators
BuildSpecialMappings ==
    /\ pc = "parsed"
    /\ SPECIAL_MAPPINGS' =
          [cp \in {ZWJ} \cup (REGIONAL_INDICATOR_A..REGIONAL_INDICATOR_Z) |->
              IF cp = ZWJ THEN <<UNDERSCORE>>
              ELSE LET letter == cp - REGIONAL_INDICATOR_A + ASCII_SMALL_A
                   IN STR_regional_indicator_ \o <<letter>>]
    /\ pc' = "special"
    /\ UNCHANGED <<nvars, pvars, ALL_MAPPINGS, fvars>>

\* {**special, **registry}: the registry entry wins a collision
MergeRegistryWins(registry, special) ==
    [cp \in DOMAIN registry \cup DOMAIN special |->
        IF cp \in DOMAIN registry THEN registry[cp] ELSE special[cp]]

\* {**registry, **special}
Merge(registry, special) ==
    [cp \in DOMAIN registry \cup DOMAIN special |->
        IF cp \in DOMAIN special THEN special[cp] ELSE registry[cp]]

\* ALL_MAPPINGS = {**EMOJI_MAPPINGS, **SPECIAL_MAPPINGS}
BuildAllMappings ==
    /\ pc = "special"
    /\ ALL_MAPPINGS' = Merge(emoji_mappings, SPECIAL_MAPPINGS)
    /\ pc' = "merged"
    /\ UNCHANGED <<nvars, pvars, SPECIAL_MAPPINGS, fvars>>

-----------------------------------------------------------------------------
(* generate_font.py.  The font library is outside the repository: a font is  *)
(* the set of its glyphs, a glyph is its Unicode slot (-1 when it has none), *)
(* its name, the glyphs it references and its substitution rules.  Outlines  *)
(* and advance widths are the library's data and are left out; every glyph   *)
(* the script creates gets a width, so isWorthOutputting() holds of each.    *)

BASE_CHARS ==
    (ASCII_DIGIT_0..ASCII_DIGIT_9) \cup (ASCII_SMALL_A..ASCII_SMALL_Z)
        \cup {HASH, LPAREN, RPAREN, STAR, UNDERSCORE}

\* cp in font
InFont(font, cp) == \E g \in font : g.unicode = cp

\* font[cp]
GlyphAt(font, cp) == CHOOSE g \in font : g.unicode = cp

NewGlyph(cp, glyph_name) ==
    [unicode |-> cp, glyphname |-> glyph_name, refs |-> <<>>, subs |-> <<>>]

HexDigitChar(d) == IF d < 10 THEN 48 + d ELSE 55 + d

RECURSIVE FormatHex(_)
FormatHex(n) ==
    IF n < 16 THEN <<HexDigitChar(n)>>
    ELSE FormatHex(n \div 16) \o <<HexDigitChar(n % 16)>>

RECURSIVE FormatDec(_)
FormatDec(n) ==
    IF n < 10 THEN <<48 + n>>
    ELSE FormatDec(n \div 10) \o <<48 + (n % 10)>>

RECURSIVE ZeroPad(_, _)
ZeroPad(s, width) == IF Len(s) >= width THEN s ELSE ZeroPad(<<48>> \o s, width)

\* f"uni{cp:04X}"
UniName(cp) == STR_uni \o ZeroPad(FormatHex(cp), 4)

\* f"comp_{i:04d}"
CompName(i) == STR_comp_ \o ZeroPad(FormatDec(i), 4)

\* the references create_text_glyph adds: one per character of text in the font
RECURSIVE TextRefs(_, _)
TextRefs(font, text) ==
    IF text = <<>> THEN <<>>
    ELSE (IF InFont(font, Head(text))
          THEN <<GlyphAt(font, Head(text)).glyphname>>
          ELSE <<>>) \o TextRefs(font, Tail(text))

\* create_text_glyph(font, glyph, text): the font with the glyph rebuilt; the
\* glyph is cleared first, so it is not itself worth outputting while its
\* text is laid out
create_text_glyph(font, glyph, text) ==
    (font \ {glyph}) \cup {[glyph EXCEPT !.refs = TextRefs(font \ {glyph}, text)]}

\* copy_source_glyphs(target_font, source_font) on the new, empty target font
copy_source_glyphs(source) ==
    {NewGlyph(char_code, source[char_code]) : char_code \in BASE_CHARS \cap DOMAIN source}

\* the body of create_emoji_glyphs' loop for one entry that is not skipped
EmojiGlyph(font, codepoint, name) ==
    LET glyph == IF InFont(font, codepoint) THEN GlyphAt(font, codepoint)
                 ELSE NewGlyph(codepoint, UniName(codepoint))
        named == [glyph EXCEPT !.glyphname = UniName(codepoint)]
    IN [named EXCEPT !.refs = TextRefs(font \ {glyph}, name)]

\* create_emoji_glyphs(font): no glyph it makes is a character of a name, so
\* the order of the entries does not show in the result
create_emoji_glyphs(font, mappings) ==
    LET todo == DOMAIN mappings \ BASE_CHARS
    IN {g \in font : g.unicode \notin todo}
          \cup {EmojiGlyph(font, cp, mappings[cp]) : cp \in todo}

\* needed_components: every codepoint of every sequence
NeededComponents(sequences) ==
    UNION {{sequences[k][1][j] : j \in 1..Len(sequences[k][1])} : k \in 1..Len(sequences)}

\* a pre-creation loop that makes glyphs for mapped codepoints only
PreCreateMappedOnly(font, cp, all_mappings) ==
    IF ~InFont(font, cp) /\ cp \in DOMAIN all_mappings
    THEN create_text_glyph(font \cup {NewGlyph(cp, UniName(cp))},
                           NewGlyph(cp, UniName(cp)), all_mappings[cp])
    ELSE font

\* the body of the loop over needed_components
PreCreate(font, cp, all_mappings) ==
    IF ~InFont(font, cp)
    THEN LET component_glyph == NewGlyph(cp, UniName(cp))
             text == IF cp \in DOMAIN all_mappings THEN all_mappings[cp] ELSE <<>>
         IN create_text_glyph(font \cup {component_glyph}, component_glyph, text)
    ELSE font

\* font.createChar(-1, glyph_name): the glyph of that name, made if missing
CreateUnencoded(font, glyph_name) ==
    IF \E g \in font : g.glyphname = glyph_name THEN font
    ELSE font \cup {NewGlyph(-1, glyph_name)}

\* the component list of one sequence
Components(font, codepoints) ==
    [k \in 1..Len(codepoints) |->
        IF InFont(font, codepoints[k]) THEN GlyphAt(font, codepoints[k]).glyphname
        ELSE UniName(codepoints[k])]

\* the body of the loop over enumerate(COMPOSITION_SEQUENCES)
Compose(font, i, codepoints, name) ==
    LET f1 == CreateUnencoded(font, CompName(i))
        g1 == CHOOSE g \in f1 : g.glyphname = CompName(i)
        f2 == create_text_glyph(f1, g1, name)
        comp_glyph == CHOOSE g \in f2 : g.glyphname = CompName(i)
        components == Components(f2, codepoints)
    IN (f2 \ {comp_glyph})
          \cup {[comp_glyph EXCEPT !.subs = Append(@, <<"ccmp_subtable", components>>)]}

\* the source fonts a run may be given: each names the glyph of a character
\* after the character; one lacks '#'
SourceFonts ==
    {[c \in D |-> <<c>>] : D \in {BASE_CHARS, BASE_CHARS \ {HASH}}}

\* main(): no file at source_font_path
SourceFontMissing ==
    /\ pc = "merged"
    /\ pc' = "exit1"
    /\ UNCHANGED <<nvars, pvars, mvars, fvars>>

\* build_font: open the source font, make the target font, copy the glyphs
CopySourceGlyphs ==
    /\ pc = "merged"
    /\ \E source \in SourceFonts :
          /\ source_font' = source
          /\ glyphs' = copy_source_glyphs(source)
    /\ pc' = "copied"
    /\ UNCHANGED <<nvars, pvars, mvars, lookups, pending, comp_i, count>>

CreateEmojiGlyphs ==
    /\ pc = "copied"
    /\ glyphs' = create_emoji_glyphs(glyphs, emoji_mappings)
    /\ pc' = "emoji"
    /\ UNCHANGED <<nvars, pvars, mvars, source_font, lookups, pending, comp_i, count>>

\* create_composition_glyphs up to the loop over needed_components
BeginComposition ==
    /\ pc = "emoji"
    /\ lookups' = lookups \cup {<<"ccmp_lookup", "ccmp_subtable">>}
    /\ pending' = NeededComponents(composition_sequences)
    /\ pc' = "precreate"
    /\ UNCHANGED <<nvars, pvars, mvars, source_font, glyphs, comp_i, count>>

\* one iteration of the loop over the set needed_components, in any order
PreCreateComponent ==
    /\ pc = "precreate"
    /\ \E cp \in pending :
          /\ glyphs' = PreCreate(glyphs, cp, ALL_MAPPINGS)
          /\ pending' = pending \ {cp}
    /\ UNCHANGED <<nvars, pc, pvars, mvars, source_font, lookups, comp_i, count>>

\* the loop is over; count = 0 and the enumeration starts
BeginCompose ==
    /\ pc = "precreate"
    /\ pending = {}
    /\ count' = 0
    /\ comp_i' = 0
    /\ pc' = "compose"
    /\ UNCHANGED <<nvars, pvars, mvars, source_font, glyphs, lookups, pending>>

\* one iteration of the loop over enumerate(COMPOSITION_SEQUENCES)
ComposeSequence ==
    /\ pc = "compose"
    /\ comp_i < Len(composition_sequences)
    /\ LET entry == composition_sequences[comp_i + 1]
       IN glyphs' = Compose(glyphs, comp_i, entry[1], entry[2])
    /\ count' = count + 1
    /\ comp_i' = comp_i + 1
    /\ UNCHANGED <<nvars, pc, pvars, mvars, source_font, lookups, pending>>

\* return count
ReturnCount ==
    /\ pc = "compose"
    /\ comp_i = Len(composition_sequences)
    /\ pc' = "composed"
    /\ UNCHANGED <<nvars, pvars, mvars, fvars>>

\* build_font's metadata and source_font.close(); the files are then written
FinishFont ==
    /\ pc = "composed"
    /\ source_font' = None
    /\ pc' = "built"
    /\ UNCHANGED <<nvars, pvars, mvars, glyphs, lookups, pending, comp_i, count>>

-----------------------------------------------------------------------------
(* The inputs *)

\* every sequence over S of length at most n
SeqsUpTo(S, n) == UNION {[1..k -> S] : k \in 0..n}

\* "flag: Japan"
RAW_flag_japan ==
    <<102, 108, 97, 103, 58, 32, 74, 97, 112, 97, 110>>

\* "keycap: 5"
RAW_keycap_5 ==
    <<107, 101, 121, 99, 97, 112, 58, 32, 53>>

\* "Congo - Kinshasa"
RAW_congo ==
    <<67, 111, 110, 103, 111, 32, 45, 32, 75, 105, 110, 115, 104, 97, 115, 97>>

\* "pi<U+F1>ata"
RAW_pinata ==
    <<112, 105, 241, 97, 116, 97>>

\* "flag_japan"
NAME_flag_japan ==
    <<102, 108, 97, 103, 95, 106, 97, 112, 97, 110>>

\* "flag_5"
NAME_flag_5 ==
    <<102, 108, 97, 103, 95, 53>>

\* "grinning_face"
NAME_grinning_face ==
    <<103, 114, 105, 110, 110, 105, 110, 103, 95, 102, 97, 99, 101>>

\* "argentina"
NAME_argentina ==
    <<97, 114, 103, 101, 110, 116, 105, 110, 97>>

\* "smile"
NAME_smile ==
    <<115, 109, 105, 108, 101>>

\* "flag_#"
NAME_flag_hash ==
    <<102, 108, 97, 103, 95, 35>>

\* "letter_a"
NAME_letter_a ==
    <<108, 101, 116, 116, 101, 114, 95, 97>>

\* "keycap"
STR_keycap ==
    <<107, 101, 121, 99, 97, 112>>

\* "abcdefghijklmnopqrstuvwxyz"
ALPHABET_a_z ==
    <<97, 98, 99, 100, 101, 102, 103, 104, 105, 106, 107, 108, 109, 110, 111, 112, 113,
    114, 115, 116, 117, 118, 119, 120, 121, 122>>

\* the characters of the free part of a raw name: a, A, n-tilde, N-tilde,
\* I-with-dot, space, tab, hyphen, colon, underscore
NameChars ==
    {ASCII_SMALL_A, 65, SMALL_N_TILDE, CAPITAL_N_TILDE, CAPITAL_I_DOT,
     SPACE, TAB, HYPHEN, COLON, UNDERSCORE}

\* what a raw name starts with: nothing, "flag:", "keycap:", "Flag:", "flag"
NamePrefixes ==
    {<<>>, STR_flag_colon, STR_keycap_colon, <<70, 108, 97, 103, 58>>,
     <<102, 108, 97, 103>>}

\* the raw names the normalizer is given
RawNames ==
    {prefix \o body : prefix \in NamePrefixes, body \in SeqsUpTo(NameChars, MaxLen)}
        \cup {RAW_flag_japan, RAW_keycap_5, RAW_congo, RAW_pinata}

\* "1F600 ; fully-qualified # <U+1F600> E1.0 grinning face\n"
LINE_grinning ==
    <<49, 70, 54, 48, 48, 32, 59, 32, 102, 117, 108, 108, 121, 45, 113, 117, 97, 108,
    105, 102, 105, 101, 100, 32, 35, 32, 128512, 32, 69, 49, 46, 48, 32, 103, 114, 105,
    110, 110, 105, 110, 103, 32, 102, 97, 99, 101, 10>>

\* the same codepoint again: "1F600 ; fully-qualified # <U+1F600> E1.0 smile\n"
LINE_smile ==
    <<49, 70, 54, 48, 48, 32, 59, 32, 102, 117, 108, 108, 121, 45, 113, 117, 97, 108,
    105, 102, 105, 101, 100, 32, 35, 32, 128512, 32, 69, 49, 46, 48, 32, 115, 109, 105,
    108, 101, 10>>

\* "1F1E6 1F1F7 ; fully-qualified # <U+1F1E6 U+1F1F7> E2.0 Argentina\n"
LINE_argentina ==
    <<49, 70, 49, 69, 54, 32, 49, 70, 49, 70, 55, 32, 59, 32, 102, 117, 108, 108, 121,
    45, 113, 117, 97, 108, 105, 102, 105, 101, 100, 32, 35, 32, 127462, 127479, 32, 69,
    50, 46, 48, 32, 65, 114, 103, 101, 110, 116, 105, 110, 97, 10>>

\* "0023 FE0F 20E3 ; fully-qualified # #<U+FE0F U+20E3> E0.6 keycap: #\n"
LINE_keycap ==
    <<48, 48, 50, 51, 32, 70, 69, 48, 70, 32, 50, 48, 69, 51, 32, 59, 32, 102, 117, 108,
    108, 121, 45, 113, 117, 97, 108, 105, 102, 105, 101, 100, 32, 35, 32, 35, 65039,
    8419, 32, 69, 48, 46, 54, 32, 107, 101, 121, 99, 97, 112, 58, 32, 35, 10>>

\* a registry entry for a regional indicator: "1F1E6 ; component # <U+1F1E6> E2.0 letter a\n"
LINE_indicator ==
    <<49, 70, 49, 69, 54, 32, 59, 32, 99, 111, 109, 112, 111, 110, 101, 110, 116, 32,
    35, 32, 127462, 32, 69, 50, 46, 48, 32, 108, 101, 116, 116, 101, 114, 32, 97, 10>>

\* "# group: Smileys & Emotion\n"
LINE_comment ==
    <<35, 32, 103, 114, 111, 117, 112, 58, 32, 83, 109, 105, 108, 101, 121, 115, 32, 38,
    32, 69, 109, 111, 116, 105, 111, 110, 10>>

\* no codepoint token: " ; fully-qualified # <U+1F600> E1.0 grinning face\n"
LINE_no_codepoint ==
    <<32, 59, 32, 102, 117, 108, 108, 121, 45, 113, 117, 97, 108, 105, 102, 105, 101,
    100, 32, 35, 32, 128512, 32, 69, 49, 46, 48, 32, 103, 114, 105, 110, 110, 105, 110,
    103, 32, 102, 97, 99, 101, 10>>

\* a token that is not hexadecimal: "zz ; fully-qualified # <U+1F600> E1.0 grinning face\n"
LINE_not_hex ==
    <<122, 122, 32, 59, 32, 102, 117, 108, 108, 121, 45, 113, 117, 97, 108, 105, 102,
    105, 101, 100, 32, 35, 32, 128512, 32, 69, 49, 46, 48, 32, 103, 114, 105, 110, 110,
    105, 110, 103, 32, 102, 97, 99, 101, 10>>

\* the lines a registry file is made of
FileLines ==
    {LINE_grinning, LINE_smile, LINE_argentina, LINE_keycap, LINE_indicator,
     LINE_comment, LINE_no_codepoint, LINE_not_hex}

\* the registry files
Files == SeqsUpTo(FileLines, MaxLines)

\* the characters of a generated comment field: a, '#', space, tab
CommentChars == {ASCII_SMALL_A, HASH, SPACE, TAB}

\* the codepoint fields of a generated line: "1F600 ", "1F1E6 1F1F7 ",
\* "0023 FE0F 20E3 "
CodepointFields ==
    {<<49, 70, 54, 48, 48, 32>>,
     <<49, 70, 49, 69, 54, 32, 49, 70, 49, 70, 55, 32>>,
     <<48, 48, 50, 51, 32, 70, 69, 48, 70, 32, 50, 48, 69, 51, 32>>}

\* "; fq #"
STR_status == <<59, 32, 102, 113, 32, 35>>

\* lines that are not of the data-line shape: "", "\n", "# a b c", "1F600",
\* "1F600 ; fq", "1F600 # a b c", "1F600 # a ; fq", "1F600 # a ; fq # a b c"
OtherLines ==
    {<<>>, <<LF>>,
     <<35, 32, 97, 32, 98, 32, 99>>,
     <<49, 70, 54, 48, 48>>,
     <<49, 70, 54, 48, 48, 32, 59, 32, 102, 113>>,
     <<49, 70, 54, 48, 48, 32, 35, 32, 97, 32, 98, 32, 99>>,
     <<49, 70, 54, 48, 48, 32, 35, 32, 97, 32, 59, 32, 102, 113>>,
     <<49, 70, 54, 48, 48, 32, 35, 32, 97, 32, 59, 32, 102, 113, 32, 35, 32, 97, 32, 98, 32, 99>>}

\* the single lines the line parser is given
GeneratedLines ==
    {field \o STR_status \o comment :
        field \in CodepointFields, comment \in SeqsUpTo(CommentChars, MaxComment)}
        \cup OtherLines

-----------------------------------------------------------------------------
(* The specifications *)

\* the normalizer is not running
NormIdle ==
    /\ nraw = <<>>
    /\ nout1 = <<>>
    /\ nout2 = <<>>
    /\ npc = "idle"

\* the state at import of emoji_mappings.py, before the file is read
BuildStart ==
    /\ pc = "loop"
    /\ idx = 1
    /\ emoji_mappings = <<>>
    /\ composition_sequences = <<>>
    /\ error = "none"
    /\ parsed = None
    /\ raw_name = None
    /\ SPECIAL_MAPPINGS = <<>>
    /\ ALL_MAPPINGS = <<>>
    /\ source_font = None
    /\ glyphs = {}
    /\ lookups = {}
    /\ pending = {}
    /\ comp_i = 0
    /\ count = 0

\* the whole build on a registry file
Init ==
    /\ NormIdle
    /\ lines \in Files
    /\ BuildStart

Next ==
    \/ ProcessLine
    \/ ReturnTables
    \/ BuildSpecialMappings
    \/ BuildAllMappings
    \/ SourceFontMissing
    \/ CopySourceGlyphs
    \/ CreateEmojiGlyphs
    \/ BeginComposition
    \/ PreCreateComponent
    \/ BeginCompose
    \/ ComposeSequence
    \/ ReturnCount
    \/ FinishFont

Spec == Init /\ [][Next]_vars

\* parse_emoji_test on a file of one generated line
InitLine ==
    /\ NormIdle
    /\ lines \in {<<line>> : line \in GeneratedLines}
    /\ BuildStart

NextLine ==
    \/ ProcessLine
    \/ ReturnTables

SpecLine == InitLine /\ [][NextLine]_vars

\* _normalize_emoji_name(emoji_name)
Normalize ==
    /\ npc = "start"
    /\ nout1' = _normalize_emoji_name(nraw)
    /\ npc' = "once"
    /\ UNCHANGED <<nraw, nout2, pc, pvars, mvars, fvars>>

\* _normalize_emoji_name applied to the name it returned
NormalizeAgain ==
    /\ npc = "once"
    /\ nout2' = _normalize_emoji_name(nout1)
    /\ npc' = "twice"
    /\ UNCHANGED <<nraw, nout1, pc, pvars, mvars, fvars>>

\* the normalizer on a raw name
InitNorm ==
    /\ nraw \in RawNames
    /\ nout1 = <<>>
    /\ nout2 = <<>>
    /\ npc = "start"
    /\ lines = <<>>
    /\ BuildStart

NextNorm ==
    \/ Normalize
    \/ NormalizeAgain

SpecNorm == InitNorm /\ [][NextNorm]_vars

-----------------------------------------------------------------------------
(* What the properties are stated with *)

\* the output alphabet [a-z0-9#()*_]
OutputAlphabet == (97..122) \cup (48..57) \cup {35, 40, 41, 42, 95}

\* the text of s before its first c, and the text after it
BeforeFirst(s, c) == SubSeq(s, 1, Find(s, c) - 1)
AfterFirst(s, c) == SubSeq(s, Find(s, c) + 1, Len(s))

\* s without its leading and trailing white space
Trim(s) ==
    LET solid == {i \in 1..Len(s) : s[i] \notin WhiteSpace}
    IN IF solid = {} THEN <<>>
       ELSE SubSeq(s, CHOOSE i \in solid : \A j \in solid : i <= j,
                      CHOOSE i \in solid : \A j \in solid : j <= i)

\* every character outside [a-z0-9#()*] read as a separator, and of each run
\* of separators only the first kept, as one underscore
Slug(s) ==
    LET sep == {i \in 1..Len(s) : s[i] \notin (OutputAlphabet \ {95})}
        keep == {i \in 1..Len(s) : i \notin sep \/ (i - 1) \notin sep}
        nth(k) == CHOOSE i \in keep : Cardinality({j \in keep : j <= i}) = k
    IN [k \in 1..Cardinality(keep) |-> IF nth(k) \in sep THEN 95 ELSE s[nth(k)]]

\* steps 2 to 5 of the normalization: lowercase, n-tilde to n, runs outside
\* the alphabet to one underscore, runs of underscores to one
StepsTwoToFive(s) == Slug(replace(lower(s), 241, <<110>>))

\* whether a raw name starts with "flag:" or "keycap:"
HasFlagPrefix(s) == StartsWith(s, STR_flag_colon) \/ StartsWith(s, STR_keycap_colon)

\* s split on runs of white space into at most maxsplit + 1 pieces
RECURSIVE SplitWhitespace(_, _)
SplitWhitespace(s, maxsplit) ==
    LET t == LStrip(s) IN
    IF t = <<>> THEN <<>>
    ELSE IF maxsplit = 0 THEN <<t>>
    ELSE LET ws == {i \in 1..Len(t) : t[i] \in WhiteSpace}
             n == IF ws = {} THEN Len(t) + 1 ELSE CHOOSE i \in ws : \A j \in ws : i <= j
         IN <<SubSeq(t, 1, n - 1)>> \o SplitWhitespace(SubSeq(t, n, Len(t)), maxsplit - 1)

\* a line has been read: the line, as the line parser got it
LineRead == idx > 1 \/ pc = "raised"
LastLine == strip(IF pc = "raised" THEN lines[idx] ELSE lines[idx - 1])

\* the codepoint tokens of a line: the white-space pieces before the first ';'
Tokens(line) == split_ws(BeforeFirst(line, 59))

\* the build is past the merge of the two tables
Merged == pc \in {"merged", "exit1", "copied", "emoji", "precreate", "compose",
                  "composed", "built"}

-----------------------------------------------------------------------------
(* The properties *)

\* C1: the normalized name of every raw name has only characters of
\* [a-z0-9#()*_] and no two consecutive underscores.
Thm_C1_OutputAlphabet ==
    npc \in {"once", "twice"} =>
        /\ \A i \in 1..Len(nout1) : nout1[i] \in OutputAlphabet
        /\ \A i \in 1..(Len(nout1) - 1) : ~(nout1[i] = 95 /\ nout1[i + 1] = 95)

\* a raw name with an uppercase non-ASCII letter and two adjacent characters
\* outside the alphabet has been normalized to something
Wit_C1_OutputAlphabet ==
    /\ npc = "once"
    /\ \E i \in 1..Len(nraw) : nraw[i] = 209
    /\ \E i \in 1..(Len(nraw) - 1) :
          nraw[i] \notin OutputAlphabet /\ nraw[i + 1] \notin OutputAlphabet
    /\ Len(nout1) >= 2

\* C2: normalizing a normalized name returns it unchanged.
Thm_C2_Idempotent == npc = "twice" => nout2 = nout1

\* a name that the first normalization changed has been normalized twice
Wit_C2_Idempotent ==
    /\ npc = "twice"
    /\ nout1 # nraw
    /\ Len(nout1) >= 2
    /\ Contains(nout1, 95)

\* C3: a raw name that starts with "flag:" or "keycap:" normalizes to "flag_"
\* followed by the lowercased, trimmed text after the first colon, the whole
\* passed through the remaining normalization steps; "flag: Japan" gives
\* "flag_japan", "keycap: 5" gives "flag_5", and no result starts with "keycap".
Thm_C3_FlagPrefix ==
    (npc \in {"once", "twice"} /\ HasFlagPrefix(nraw)) =>
        /\ nout1 = StepsTwoToFive(STR_flag_underscore \o lower(Trim(AfterFirst(nraw, 58))))
        /\ StartsWith(nout1, STR_flag_underscore)
        /\ ~StartsWith(nout1, STR_keycap)
        /\ (nraw = RAW_flag_japan => nout1 = NAME_flag_japan)
        /\ (nraw = RAW_keycap_5 => nout1 = NAME_flag_5)

\* a keycap name whose suffix has white space around an uppercase letter has
\* been normalized
Wit_C3_FlagPrefix ==
    /\ npc = "once"
    /\ StartsWith(nraw, STR_keycap_colon)
    /\ AfterFirst(nraw, 58) # Trim(AfterFirst(nraw, 58))
    /\ \E i \in 1..Len(nraw) : nraw[i] = 65
    /\ Len(nout1) > Len(STR_flag_underscore)

\* C4 as it was put: a raw name with a colon and without the "flag:" or
\* "keycap:" prefix normalizes to steps 2 to 5 of exactly the text before the
\* first colon, nothing else removed from it.
Cex_C4_TextBeforeColon ==
    (npc \in {"once", "twice"} /\ Contains(nraw, 58) /\ ~HasFlagPrefix(nraw)) =>
        nout1 = StepsTwoToFive(BeforeFirst(nraw, 58))

\* C4, amended: a raw name with a colon and without the "flag:" or "keycap:"
\* prefix normalizes to steps 2 to 5 of the text before the first colon with
\* its leading and trailing white space removed; nothing after the first
\* colon influences the result.
Thm_C4_TrimmedTextBeforeColon ==
    (npc \in {"once", "twice"} /\ Contains(nraw, 58) /\ ~HasFlagPrefix(nraw)) =>
        nout1 = StepsTwoToFive(Trim(BeforeFirst(nraw, 58)))

\* a name with white space right before its first colon and text after it has
\* been normalized
Wit_C4_TrimmedTextBeforeColon ==
    /\ npc = "once"
    /\ Contains(nraw, 58)
    /\ ~HasFlagPrefix(nraw)
    /\ Trim(BeforeFirst(nraw, 58)) # <<>>
    /\ Trim(BeforeFirst(nraw, 58)) # BeforeFirst(nraw, 58)
    /\ AfterFirst(nraw, 58) # <<>>

\* C5: for every line the line parser accepts, the raw name is the third
\* piece of the trimmed comment field (the text after the first '#' that
\* follows the first ';') split on white space into at most 3 pieces, and a
\* line whose comment field has fewer than 3 such pieces is rejected.
Cex_C5_ThirdWhitespacePiece ==
    (LineRead /\ Contains(LastLine, 59) /\ Contains(AfterFirst(LastLine, 59), 35)) =>
        LET comment == Trim(AfterFirst(AfterFirst(LastLine, 59), 35))
            pieces == SplitWhitespace(comment, 2)
        IN /\ parsed # None => (Len(pieces) >= 3 /\ raw_name = Some(pieces[3]))
           /\ Len(pieces) < 3 => parsed = None

\* C6: a line read with exactly one codepoint sets mapping[codepoint] to the
\* name, whatever was there, and leaves the sequence list alone; a line read
\* with more than one codepoint appends one (integers, name) entry to the
\* sequence list and leaves the mapping alone, its components included.
Thm_C6_OneTablePerLine ==
    [][(pc = "loop" /\ idx' = idx + 1 /\ parsed' # None) =>
          LET tokens == parsed'[1][1]
              name == parsed'[1][2]
              ints == [k \in 1..Len(tokens) |-> int16(tokens[k])]
          IN /\ Len(tokens) = 1 =>
                  /\ composition_sequences' = composition_sequences
                  /\ DOMAIN emoji_mappings' = DOMAIN emoji_mappings \cup {ints[1]}
                  /\ emoji_mappings'[ints[1]] = name
                  /\ \A c \in DOMAIN emoji_mappings \ {ints[1]} :
                        emoji_mappings'[c] = emoji_mappings[c]
             /\ Len(tokens) > 1 =>
                  /\ emoji_mappings' = emoji_mappings
                  /\ composition_sequences' =
                        Append(composition_sequences, <<ints, name>>)
             /\ lines[idx] = LINE_grinning =>
                  (128512 \in DOMAIN emoji_mappings'
                      /\ emoji_mappings'[128512] = NAME_grinning_face)
             /\ lines[idx] = LINE_argentina =>
                  /\ composition_sequences' =
                        Append(composition_sequences, <<<<127462, 127479>>, NAME_argentina>>)
                  /\ emoji_mappings' = emoji_mappings
      ]_vars

\* a second line for U+1F600 has overwritten the first, and a sequence line
\* has been read without its components entering the mapping
Wit_C6_OneTablePerLine ==
    /\ pc = "loop"
    /\ \E i, j, k \in 1..(idx - 1) :
          /\ i < j
          /\ lines[i] = LINE_grinning
          /\ lines[j] = LINE_smile
          /\ lines[k] = LINE_argentina
    /\ 128512 \in DOMAIN emoji_mappings
    /\ emoji_mappings[128512] = NAME_smile
    /\ 127462 \notin DOMAIN emoji_mappings
    /\ Len(composition_sequences) = 1

\* C7: ALL_MAPPINGS has the registry keys and the special keys; it maps
\* U+200D to "_" and each of the 26 codepoints U+1F1E6..U+1F1FF to
\* "regional_indicator_" plus the letter at its offset from U+1F1E6, also
\* where the registry has the codepoint; every other key keeps its registry
\* value.
Thm_C7_SpecialWins ==
    Merged =>
        /\ DOMAIN ALL_MAPPINGS = DOMAIN emoji_mappings \cup {8205} \cup (127462..127487)
        /\ DOMAIN SPECIAL_MAPPINGS = {8205} \cup (127462..127487)
        /\ Cardinality(DOMAIN SPECIAL_MAPPINGS \ {8205}) = 26
        /\ ALL_MAPPINGS[8205] = <<95>>
        /\ \A cp \in 127462..127487 :
              ALL_MAPPINGS[cp] =
                  STR_regional_indicator_ \o <<ALPHABET_a_z[cp - 127462 + 1]>>
        /\ \A cp \in DOMAIN emoji_mappings \ ({8205} \cup (127462..127487)) :
              ALL_MAPPINGS[cp] = emoji_mappings[cp]

\* the tables are merged and the registry has an entry for U+1F1E6 and one
\* for U+1F600
Wit_C7_SpecialWins ==
    /\ pc = "merged"
    /\ 127462 \in DOMAIN emoji_mappings
    /\ emoji_mappings[127462] = NAME_letter_a
    /\ 128512 \in DOMAIN emoji_mappings

\* C8: parse_emoji_test never raises on a line whose codepoint tokens, zero
\* or more, are all hexadecimal: such a line is skipped with both tables
\* unchanged or recorded in one of the two tables.
Cex_C8_NeverRaises ==
    [][(pc = "loop" /\ idx <= Len(lines)
            /\ \A k \in 1..Len(Tokens(strip(lines[idx]))) :
                  IsHex(Tokens(strip(lines[idx]))[k])) =>
          /\ pc' # "raised"
          /\ error' = "none"
          /\ idx' = idx + 1
          /\ parsed' = None =>
                (emoji_mappings' = emoji_mappings
                    /\ composition_sequences' = composition_sequences)
          /\ parsed' # None =>
                \/ Len(composition_sequences') = Len(composition_sequences) + 1
                \/ \E cp \in DOMAIN emoji_mappings' : emoji_mappings'[cp] = parsed'[1][2]
      ]_vars

\* C9: the sequence list is the accepted lines with more than one codepoint
\* among the lines read, one entry per line in file order, the codepoints of
\* an entry in token order, a repeated sequence repeated.
Thm_C9_FileOrder ==
    LET multi == {j \in 1..(idx - 1) :
                     /\ _parse_line(strip(lines[j])) # None
                     /\ Len(Tokens(strip(lines[j]))) > 1}
        nth(k) == CHOOSE j \in multi : Cardinality({m \in multi : m <= j}) = k
    IN /\ Len(composition_sequences) = Cardinality(multi)
       /\ \A k \in 1..Len(composition_sequences) :
             LET tokens == Tokens(strip(lines[nth(k)]))
             IN /\ Len(composition_sequences[k][1]) = Len(tokens)
                /\ \A t \in 1..Len(tokens) :
                      composition_sequences[k][1][t] = int16(tokens[t])
                /\ composition_sequences[k][2] = _parse_line(strip(lines[nth(k)]))[1][2]

\* a file of three sequence lines, the first and the third the same, is read
Wit_C9_FileOrder ==
    /\ pc = "parsed"
    /\ Len(composition_sequences) = 3
    /\ composition_sequences[1] = composition_sequences[3]
    /\ composition_sequences[1] # composition_sequences[2]
    /\ composition_sequences[2] = <<<<35, 65039, 8419>>, NAME_flag_hash>>

====
